---- MODULE Spec2Model ----
(***************************************************************************)
(* Model of the weather bolt bot (src/main.py): the aiohttp web server     *)
(* with its two routes, the python-telegram-bot dispatch of one update to  *)
(* one of the three handlers, get_weather with its hyphen retry, and the   *)
(* bolt status formatter.                                                   *)
(*                                                                         *)
(* Everything runs on one asyncio event loop.  A coroutine keeps the loop  *)
(* from the moment it is resumed until its next await; `running` is the    *)
(* task that holds the loop, 0 when the loop is free.  get_weather is a    *)
(* plain function calling requests.get, so the task keeps the loop while   *)
(* its provider request is in flight.                                      *)
(***************************************************************************)
EXTENDS Integers, Sequences, FiniteSets, TLC

VARIABLES task, running, weather_data, messages, fmt_pc

vars == <<task, running, weather_data, messages, fmt_pc>>

\* Number of inbound HTTP requests the model follows (connections 1..MaxTasks).
MaxTasks == 2

Tasks == 1..MaxTasks

(***************************************************************************)
(* Strings are sequences of one-character strings.                         *)
(***************************************************************************)
IsSpace(c) == c = " "

RECURSIVE lstrip(_)
lstrip(s) == IF s # <<>> /\ IsSpace(Head(s)) THEN lstrip(Tail(s)) ELSE s

RECURSIVE rstrip(_)
rstrip(s) ==
    IF s # <<>> /\ IsSpace(s[Len(s)]) THEN rstrip(SubSeq(s, 1, Len(s) - 1)) ELSE s

\* a strip that removes nothing
strip_id(s) == s
\* str.strip(): leading and trailing whitespace removed
strip(s) == rstrip(lstrip(s))

\* str.replace('-', ' '): every occurrence replaced
replace(s) == [i \in 1..Len(s) |-> IF s[i] = "-" THEN " " ELSE s[i]]

\* '-' in city
HasHyphen(s) == \E i \in 1..Len(s) : s[i] = "-"

(***************************************************************************)
(* The four error texts of get_weather (the source's texts are Russian).   *)
(***************************************************************************)
ERR_NOT_FOUND == "city not found"
ERR_PROVIDER == "provider error"
ERR_NETWORK == "network unreachable"
ERR_UNEXPECTED == "unexpected error"

NoError == ""
NoData == [k \in {} |-> 0]

(***************************************************************************)
(* Bolt status formatter.                                                  *)
(***************************************************************************)
WET == "BOLT WET - RAINING"
DRY == "BOLT DRY - NO RAIN"
CLEAR == "BOLT CASTS SHADOW - CLEAR"
CLOUDY == "BOLT CASTS NO SHADOW - CLOUDY"
FOG == "BOLT NOT VISIBLE - FOG"
NOFOG == "BOLT VISIBLE - NO FOG"
WINDY == "BOLT SWAYING - WINDY"
CALM == "BOLT NOT SWAYING - CALM"
SNOW == "BOLT IN WHITE - SNOW"

CloudsThreshold == 30
VisibilityThreshold == 1000
WindThreshold == 5

rain_line(wd) == IF wd.rain > 0 THEN WET ELSE DRY

\* the clouds rule with the boundary on the clear side
clouds_line_le(wd) == IF wd.clouds <= CloudsThreshold THEN CLEAR ELSE CLOUDY
clouds_line(wd) == IF wd.clouds < CloudsThreshold THEN CLEAR ELSE CLOUDY

visibility_line(wd) == IF wd.visibility < VisibilityThreshold THEN FOG ELSE NOFOG

wind_line(wd) == IF wd.wind_speed > WindThreshold THEN WINDY ELSE CALM

snow_lines(wd) == IF wd.snow > 0 THEN <<SNOW>> ELSE <<>>

\* the snow line put first instead of last
generate_bolt_message_snow_first(wd) ==
    snow_lines(wd) \o
    <<rain_line(wd), clouds_line(wd), visibility_line(wd), wind_line(wd)>>
generate_bolt_message(wd) ==
    <<rain_line(wd), clouds_line(wd), visibility_line(wd), wind_line(wd)>>
    \o snow_lines(wd)

generate_detailed_message(wd) ==
    [kind |-> "detailed", city |-> wd.city, temp |-> wd.temp,
     description |-> wd.description, bolt |-> generate_bolt_message(wd),
     error |-> NoError]

\* full_message of inline_query: header naming the city, then the bolt lines
compact_message(wd) ==
    [kind |-> "compact", city |-> wd.city, temp |-> 0, description |-> "",
     bolt |-> generate_bolt_message(wd), error |-> NoError]

\* f"X {error}"
error_message(error) ==
    [kind |-> "error", city |-> "", temp |-> 0, description |-> "",
     bolt |-> <<>>, error |-> error]

greeting_message ==
    [kind |-> "greeting", city |-> "", temp |-> 0, description |-> "",
     bolt |-> <<>>, error |-> NoError]

NoMessage ==
    [kind |-> "none", city |-> "", temp |-> 0, description |-> "",
     bolt |-> <<>>, error |-> NoError]

(***************************************************************************)
(* The weather provider's answers.  A body is either not JSON at all or a  *)
(* JSON object, modelled as a function from the (flattened) field paths it *)
(* holds to their values.                                                  *)
(***************************************************************************)
RequiredFields ==
    {"name", "main.temp", "weather[0].description", "clouds.all", "wind.speed"}

Moscow ==
    [f \in RequiredFields \cup {"rain.1h", "visibility"} |->
        CASE f = "name" -> "Moscow"
          [] f = "main.temp" -> 3
          [] f = "weather[0].description" -> "light rain"
          [] f = "clouds.all" -> 80
          [] f = "wind.speed" -> 2
          [] f = "rain.1h" -> 1
          [] f = "visibility" -> 5000]

\* only the required fields and snow: rain and visibility take their defaults
TelAviv ==
    [f \in RequiredFields \cup {"snow.1h"} |->
        CASE f = "name" -> "Tel Aviv"
          [] f = "main.temp" -> 25
          [] f = "weather[0].description" -> "snow"
          [] f = "clouds.all" -> 10
          [] f = "wind.speed" -> 7
          [] f = "snow.1h" -> 2]

Without(data, field) == [f \in DOMAIN data \ {field} |-> data[f]]

JsonBody(data) == [json |-> TRUE, data |-> data]
NotJson == [json |-> FALSE, data |-> NoData]
NoBody == [json |-> FALSE, data |-> NoData]

Bodies ==
    {NotJson, JsonBody(Moscow), JsonBody(TelAviv), JsonBody(NoData)}
    \cup {JsonBody(Without(Moscow, f)) : f \in RequiredFields}

\* 300 stands for a redirect status that requests hands back (no Location)
Statuses == {200, 300, 404, 500}

Response(status) == [exc |-> "", status |-> status]
Failure(exc) == [exc |-> exc, status |-> 0]

\* what requests.get(url, params, timeout=10) can come back with
FetchOutcomes ==
    {Response(s) : s \in Statuses}
    \cup {Failure(e) : e \in {"Timeout", "ConnectionError"}}

(***************************************************************************)
(* get_weather                                                             *)
(***************************************************************************)
GwResult(info, error) == [weather_info |-> info, error |-> error]
NoResult == GwResult(NoData, NoError)

\* a retry on every 404, hyphen or not
needs_retry_any_404(response, city) == response.status = 404
\* response.status_code == 404 and '-' in city
needs_retry(response, city) == response.status = 404 /\ HasHyphen(city)

\* response.raise_for_status(): HTTPError for 4xx and 5xx
raise_for_status(status) == 400 <= status /\ status < 600

\* an HTTPError branch without the 404 case
http_error_text_generic(status) == ERR_PROVIDER
\* except requests.exceptions.HTTPError
http_error_text(status) == IF status = 404 THEN ERR_NOT_FOUND ELSE ERR_PROVIDER

Get(data, field, default) == IF field \in DOMAIN data THEN data[field] ELSE default

\* the dict built from data; a missing required field raises KeyError
has_required(data) == RequiredFields \subseteq DOMAIN data

weather_info(data) ==
    [city |-> data["name"],
     temp |-> data["main.temp"],
     description |-> data["weather[0].description"],
     rain |-> Get(data, "rain.1h", 0),
     snow |-> Get(data, "snow.1h", 0),
     clouds |-> data["clouds.all"],
     visibility |-> Get(data, "visibility", 10000),
     wind_speed |-> data["wind.speed"]]

\* response.json() on a body that is not JSON raises
\* requests.exceptions.JSONDecodeError, a RequestException, with requests
\* 2.27 and later, and a plain ValueError with earlier versions; the
\* repository pins no version.
JSONDecodeErrorClasses == {"RequestException", "ValueError"}

(***************************************************************************)
(* Inbound requests                                                        *)
(***************************************************************************)
\* texts of direct messages and of inline queries, as typed
MessageTexts == { <<"a", "b">> }

QueryTexts == { <<>>, <<" ", " ">>, <<" ", "a", "-", "b", "-", "c", " ">> }

Update(kind, text) == [kind |-> kind, text |-> text]
NoUpdate == Update("none", <<>>)

\* what POST /webhook can carry: a body that does not decode into an
\* update, /start, a text message, an edited text message (update.message
\* is None), an inline query, and an update no handler is registered for
WebhookBodies ==
    {Update(k, <<>>) : k \in {"malformed", "start", "other"}}
    \cup {Update("edited_message", <<"a", "b">>)}
    \cup {Update("message", x) : x \in MessageTexts}
    \cup {Update("inline_query", x) : x \in QueryTexts}

CACHE_TIME == 300

Payload(method, message, results, cache_time) ==
    [method |-> method, message |-> message, results |-> results,
     cache_time |-> cache_time]

Article(id, title, description, message) ==
    [id |-> id, title |-> title, description |-> description, message |-> message]

\* handle_message: the reply it sends for a get_weather result
message_reply(result) ==
    IF result.error # NoError THEN error_message(result.error)
    ELSE generate_detailed_message(result.weather_info)

\* a results list that stays empty on error
inline_results_no_error_article(result) ==
    IF result.error # NoError THEN <<>>
    ELSE <<Article(result.weather_info.city,
                   <<"bolt", result.weather_info.city>>,
                   <<result.weather_info.temp, result.weather_info.description>>,
                   compact_message(result.weather_info))>>
\* inline_query: the results list it answers with
inline_results(result) ==
    IF result.error # NoError
    THEN <<Article("error", <<"error", result.error>>, <<0, "">>,
                   error_message(result.error))>>
    ELSE <<Article(result.weather_info.city,
                   <<"bolt", result.weather_info.city>>,
                   <<result.weather_info.temp, result.weather_info.description>>,
                   compact_message(result.weather_info))>>

\* the two statuses the wrong way round
webhook_status_swapped(exc) == IF exc THEN 200 ELSE 500
\* telegram_webhook_handler: web.Response() or web.Response(status=500)
webhook_status(exc) == IF exc THEN 500 ELSE 200

(***************************************************************************)
(* State                                                                   *)
(***************************************************************************)
IdleTask ==
    [pc |-> "idle", request |-> "", update |-> NoUpdate, exc |-> FALSE,
     http |-> 0, city |-> <<>>, requests |-> <<>>, responses |-> <<>>,
     body |-> NoBody, result |-> NoResult, sent |-> <<>>, calls |-> 0,
     logged |-> {}]

DefaultReading ==
    [city |-> "", temp |-> 0, description |-> "", rain |-> 0, snow |-> 0,
     clouds |-> 0, visibility |-> 10000, wind_speed |-> 0]

Init ==
    /\ task = [t \in Tasks |-> IdleTask]
    /\ running = 0
    /\ weather_data = DefaultReading
    /\ messages = <<>>
    /\ fmt_pc = "off"

Set(t, fields) ==
    task' = [task EXCEPT ![t] = [f \in DOMAIN IdleTask |->
                IF f \in DOMAIN fields THEN fields[f] ELSE task[t][f]]]

\* connections are numbered in their order of arrival
CanAccept(t) ==
    /\ task[t].pc = "idle"
    /\ running = 0
    /\ \A u \in Tasks : u < t => task[u].pc # "idle"

FormatIdle == UNCHANGED <<weather_data, messages, fmt_pc>>

\* GET /health
health_check_handler(t) ==
    /\ CanAccept(t)
    /\ Set(t, [pc |-> "done", request |-> "GET /health", http |-> 200])
    /\ UNCHANGED running
    /\ FormatIdle

\* POST /webhook, up to `await request.json()`
telegram_webhook_handler(t) ==
    /\ CanAccept(t)
    /\ Set(t, [pc |-> "request.json", request |-> "POST /webhook"])
    /\ UNCHANGED running
    /\ FormatIdle

\* data = await request.json(); update = Update.de_json(data, bot_app.bot)
webhook_decode(t) ==
    /\ task[t].pc = "request.json"
    /\ running = 0
    /\ \E b \in WebhookBodies :
          IF b.kind = "malformed"
          THEN Set(t, [pc |-> "respond", update |-> b, exc |-> TRUE])
          ELSE Set(t, [pc |-> "process_update", update |-> b])
    /\ running' = t
    /\ FormatIdle

\* await bot_app.process_update(update): the first registered handler whose
\* filter accepts the update runs; CommandHandler("start"), InlineQueryHandler,
\* MessageHandler(filters.TEXT & ~filters.COMMAND)
process_update(t) ==
    /\ task[t].pc = "process_update"
    /\ running = t
    /\ LET k == task[t].update.kind IN
         Set(t, [pc |-> CASE k = "start" -> "start"
                          [] k = "inline_query" -> "inline_query"
                          [] k \in {"message", "edited_message"} -> "handle_message"
                          [] OTHER -> "respond"])
    /\ UNCHANGED running
    /\ FormatIdle

\* the call get_weather(city), up to the first fetch_data(city)
CallGetWeather(t, city) ==
    Set(t, [pc |-> "fetch1", city |-> city, calls |-> task[t].calls + 1,
            requests |-> <<city>>])

\* await update.message.reply_text(...) / update.inline_query.answer(...):
\* the payload goes out and the coroutine gives up the loop
Send(t, payload) ==
    /\ Set(t, [pc |-> "await_send", sent |-> Append(task[t].sent, payload),
               city |-> <<>>, requests |-> <<>>, responses |-> <<>>,
               body |-> NoBody])
    /\ running' = 0

start(t) ==
    /\ task[t].pc = "start"
    /\ running = t
    /\ Send(t, Payload("reply_text", greeting_message, <<>>, 0))
    /\ FormatIdle

\* handle_message up to the call of get_weather
handle_message(t) ==
    /\ task[t].pc = "handle_message"
    /\ running = t
    /\ IF task[t].update.kind = "edited_message"
       THEN Set(t, [pc |-> "handler_raised"])
       ELSE CallGetWeather(t, strip(task[t].update.text))
    /\ UNCHANGED running
    /\ FormatIdle

\* inline_query up to the call of get_weather
inline_query(t) ==
    /\ task[t].pc = "inline_query"
    /\ running = t
    /\ LET query == strip(task[t].update.text) IN
         IF query = <<>>
         THEN Set(t, [pc |-> "respond"])
         ELSE CallGetWeather(t, query)
    /\ UNCHANGED running
    /\ FormatIdle

\* response = fetch_data(city) returns or raises; the 404-and-hyphen test
fetch_data(t) ==
    /\ task[t].pc = "fetch1"
    /\ running = t
    /\ \E r \in FetchOutcomes :
          IF r.exc # ""
          THEN Set(t, [pc |-> "get_weather_return",
                       responses |-> <<r>>,
                       result |-> GwResult(NoData, ERR_NETWORK)])
          ELSE IF needs_retry(r, task[t].city)
          THEN Set(t, [pc |-> "fetch2", responses |-> <<r>>,
                       requests |-> Append(task[t].requests, replace(task[t].city))])
          ELSE Set(t, [pc |-> "raise_for_status", responses |-> <<r>>])
    /\ UNCHANGED running
    /\ FormatIdle

\* response = fetch_data(city_variant) returns or raises
fetch_data_variant(t) ==
    /\ task[t].pc = "fetch2"
    /\ running = t
    /\ \E r \in FetchOutcomes :
          IF r.exc # ""
          THEN Set(t, [pc |-> "get_weather_return",
                       responses |-> Append(task[t].responses, r),
                       result |-> GwResult(NoData, ERR_NETWORK)])
          ELSE Set(t, [pc |-> "raise_for_status",
                       responses |-> Append(task[t].responses, r)])
    /\ UNCHANGED running
    /\ FormatIdle

\* response.raise_for_status(); data = response.json(); weather_info = {...};
\* and the three except clauses
parse_response(t) ==
    /\ task[t].pc = "raise_for_status"
    /\ running = t
    /\ LET response == task[t].responses[Len(task[t].responses)] IN
         IF raise_for_status(response.status)
         THEN Set(t, [pc |-> "get_weather_return",
                      result |-> GwResult(NoData, http_error_text(response.status))])
         ELSE \E b \in Bodies :
                IF ~b.json
                THEN \E cls \in JSONDecodeErrorClasses :
                       IF cls = "RequestException"
                       THEN Set(t, [pc |-> "get_weather_return", body |-> b,
                                    result |-> GwResult(NoData, ERR_NETWORK)])
                       ELSE Set(t, [pc |-> "get_weather_return", body |-> b,
                                    result |-> GwResult(NoData, ERR_UNEXPECTED),
                                    logged |-> task[t].logged \cup {"get_weather"}])
                ELSE IF ~has_required(b.data)
                THEN Set(t, [pc |-> "get_weather_return", body |-> b,
                             result |-> GwResult(NoData, ERR_UNEXPECTED),
                             logged |-> task[t].logged \cup {"get_weather"}])
                ELSE Set(t, [pc |-> "get_weather_return", body |-> b,
                             result |-> GwResult(weather_info(b.data), NoError)])
    /\ UNCHANGED running
    /\ FormatIdle

\* handle_message after get_weather: one reply_text
handle_message_reply(t) ==
    /\ task[t].pc = "get_weather_return"
    /\ task[t].update.kind = "message"
    /\ running = t
    /\ Send(t, Payload("reply_text", message_reply(task[t].result), <<>>, 0))
    /\ FormatIdle

\* inline_query after get_weather: update.inline_query.answer(results, cache_time=300)
inline_query_answer(t) ==
    /\ task[t].pc = "get_weather_return"
    /\ task[t].update.kind = "inline_query"
    /\ running = t
    /\ Send(t, Payload("answer", NoMessage, inline_results(task[t].result), CACHE_TIME))
    /\ FormatIdle

\* the awaited Telegram call completes or raises (telegram.error.TelegramError);
\* the coroutine is resumed when the loop is free
send_complete(t) ==
    /\ task[t].pc = "await_send"
    /\ running = 0
    /\ \E ok \in BOOLEAN :
          Set(t, [pc |-> IF ok THEN "respond" ELSE "handler_raised"])
    /\ running' = t
    /\ FormatIdle

\* process_update catches an exception of a handler and calls the registered
\* error handler; nothing propagates to the webhook handler
error_handler(t) ==
    /\ task[t].pc = "handler_raised"
    /\ running = t
    /\ Set(t, [pc |-> "respond", exc |-> FALSE,
               logged |-> task[t].logged \cup {"error_handler"}])
    /\ UNCHANGED running
    /\ FormatIdle

\* return web.Response(), or the except branch: log, web.Response(status=500)
webhook_respond(t) ==
    /\ task[t].pc = "respond"
    /\ running = t
    /\ Set(t, [pc |-> "done", http |-> webhook_status(task[t].exc),
               logged |-> IF task[t].exc THEN task[t].logged \cup {"webhook"}
                          ELSE task[t].logged])
    /\ running' = 0
    /\ FormatIdle

Next ==
    \E t \in Tasks :
        \/ health_check_handler(t)
        \/ telegram_webhook_handler(t)
        \/ webhook_decode(t)
        \/ process_update(t)
        \/ start(t)
        \/ handle_message(t)
        \/ inline_query(t)
        \/ fetch_data(t)
        \/ fetch_data_variant(t)
        \/ parse_response(t)
        \/ handle_message_reply(t)
        \/ inline_query_answer(t)
        \/ send_complete(t)
        \/ error_handler(t)
        \/ webhook_respond(t)

Spec == Init /\ [][Next]_vars

(***************************************************************************)
(* The formatter on its own: generate_bolt_message applied to one reading. *)
(***************************************************************************)
FormatReadings ==
    [city : {"Moscow"}, temp : {3}, description : {"light rain"},
     rain : {0, 1, 3}, snow : {0, 2},
     clouds : {0, 29, 30, 31, 100},
     visibility : {0, 999, 1000, 1001, 10000},
     wind_speed : {0, 4, 5, 6}]

InitFormat ==
    /\ task = [t \in Tasks |-> IdleTask]
    /\ running = 0
    /\ weather_data \in FormatReadings
    /\ messages = <<>>
    /\ fmt_pc = "call"

Format ==
    /\ fmt_pc = "call"
    /\ messages' = generate_bolt_message(weather_data)
    /\ fmt_pc' = "return"
    /\ UNCHANGED <<task, running, weather_data>>

NextFormat == Format

SpecFormat == InitFormat /\ [][NextFormat]_vars

(***************************************************************************)
(* Properties                                                              *)
(***************************************************************************)
Last(seq) == seq[Len(seq)]

InGetWeather(t) ==
    task[t].pc \in {"fetch1", "fetch2", "raise_for_status", "get_weather_return"}

Returned(t) == task[t].pc = "get_weather_return"

\* a provider request of task t is in flight
InFlight(t) == task[t].pc \in {"fetch1", "fetch2"}

Hyphenated(s) == \E i \in 1..Len(s) : s[i] = "-"

\* C1: get_weather requests the provider at most twice; the second request
\* is issued exactly when the first response is a 404 and the city holds a
\* hyphen, and it asks for the city with every hyphen turned into a space;
\* a timeout or connection failure ends the call with the network error
\* and no second request.
C1_RetryOnlyOn404Hyphen ==
    \A t \in Tasks :
        LET r == task[t] IN
        /\ r.calls <= 1
        /\ Len(r.requests) <= 2
        /\ Len(r.responses) <= Len(r.requests)
        /\ InGetWeather(t) => r.requests # <<>> /\ r.requests[1] = r.city
        /\ (Len(r.requests) = 2) <=>
               /\ r.responses # <<>>
               /\ r.responses[1].exc = ""
               /\ r.responses[1].status = 404
               /\ Hyphenated(r.city)
        /\ Len(r.requests) = 2 =>
               /\ Len(r.requests[2]) = Len(r.city)
               /\ \A i \in 1..Len(r.city) :
                     r.requests[2][i] = IF r.city[i] = "-" THEN " " ELSE r.city[i]
        /\ (Returned(t) /\ r.responses[1].exc # "") => Len(r.requests) = 1
        /\ (Returned(t) /\ Last(r.responses).exc # "") =>
               /\ Len(r.responses) = Len(r.requests)
               /\ r.result = GwResult(NoData, ERR_NETWORK)

C1_Witness ==
    \E t \in Tasks :
        /\ Returned(t)
        /\ Len(task[t].requests) = 2
        /\ Len(task[t].responses) = 2
        /\ task[t].requests[2] = <<"a", " ", "b", " ", "c">>

WellFormed(b) == b.json /\ RequiredFields \subseteq DOMAIN b.data

\* C2 as stated: the last response decides; 200 with a well-formed body is
\* a reading, 404 is "city not found", every other status that is not a
\* success is "provider error".
C2_LastResponseDecides_Original ==
    \A t \in Tasks :
        (Returned(t) /\ Last(task[t].responses).exc = "") =>
            LET s == Last(task[t].responses).status
                r == task[t].result IN
            /\ (s = 200 /\ WellFormed(task[t].body)) =>
                   r.error = NoError /\ r.weather_info # NoData
            /\ s = 404 => r = GwResult(NoData, ERR_NOT_FOUND)
            /\ s \notin {200, 404} => r = GwResult(NoData, ERR_PROVIDER)

\* C2 amended: the last response decides; 200 with a well-formed body is a
\* reading, 404 is "city not found", every other status from 400 to 599 is
\* "provider error" (a status below 400 is not an error status: its body
\* is parsed).
C2_LastResponseDecides ==
    \A t \in Tasks :
        (Returned(t) /\ Last(task[t].responses).exc = "") =>
            LET s == Last(task[t].responses).status
                r == task[t].result IN
            /\ (s = 200 /\ WellFormed(task[t].body)) =>
                   r.error = NoError /\ r.weather_info # NoData
            /\ s = 404 => r = GwResult(NoData, ERR_NOT_FOUND)
            /\ (s >= 400 /\ s <= 599 /\ s # 404) => r = GwResult(NoData, ERR_PROVIDER)
            /\ s < 400 => r.error \notin {ERR_NOT_FOUND, ERR_PROVIDER}

C2_Witness ==
    \E t \in Tasks :
        /\ Returned(t)
        /\ Len(task[t].responses) = 2
        /\ task[t].responses[1].status = 404
        /\ task[t].responses[2].status = 200
        /\ task[t].result.error = NoError
        /\ task[t].result.weather_info.city = "Moscow"

\* C3: a success status with a malformed body (not JSON, or a required
\* field missing) gives the "unexpected error" result and a log entry,
\* never a reading and never one of the other three errors.
C3_MalformedBodyIsUnexpected ==
    \A t \in Tasks :
        (/\ Returned(t)
         /\ Last(task[t].responses).exc = ""
         /\ Last(task[t].responses).status = 200
         /\ ~WellFormed(task[t].body)) =>
            /\ task[t].result = GwResult(NoData, ERR_UNEXPECTED)
            /\ "get_weather" \in task[t].logged

\* what another connection could do next
OtherProgress(t) ==
    \E u \in Tasks \ {t} :
        \/ health_check_handler(u)
        \/ telegram_webhook_handler(u)
        \/ webhook_decode(u)
        \/ send_complete(u)

Waiting(u) == task[u].pc \in {"idle", "request.json", "await_send"}

\* C4: while the provider request of one update is in flight, any other
\* request that is waiting for the loop (a new GET /health or POST /webhook,
\* a webhook whose body or whose Telegram call has completed) can proceed.
C4_InFlightDoesNotBlockOthers ==
    \A t \in Tasks :
        (InFlight(t) /\ \E u \in Tasks \ {t} : Waiting(u)) => ENABLED OtherProgress(t)

\* C5: the HTTP response of a POST /webhook goes out at the handoff: no
\* handler waits for the provider or for Telegram while the HTTP response
\* of its request is still unsent.
C5_ResponseBeforeHandlerWaits ==
    \A t \in Tasks :
        task[t].pc \in {"fetch1", "fetch2", "await_send"} => task[t].http # 0

Webhook(t) == task[t].request = "POST /webhook"

C6_State ==
    \A t \in Tasks :
        Webhook(t) =>
            /\ task[t].http \in {0, 200, 500}
            /\ task[t].pc = "done" <=> task[t].http # 0
            /\ task[t].http = 500 => task[t].update.kind = "malformed"
            /\ (task[t].pc = "done" /\ task[t].update.kind # "malformed") =>
                   task[t].http = 200
            /\ (task[t].pc = "done" /\ "error_handler" \in task[t].logged) =>
                   task[t].http = 200

\* C6: every POST /webhook gets one response, 200 or 500, never changed
\* once sent; 500 only when the body does not decode into an update, 200
\* in every other case, a handler failure included.
C6_WebhookStatus ==
    /\ []C6_State
    /\ [][\A t \in Tasks : task[t].http # 0 => task'[t].http = task[t].http]_vars

C6_Witness ==
    \E t, u \in Tasks :
        /\ task[t].pc = "done" /\ task[t].http = 500
        /\ "webhook" \in task[t].logged
        /\ task[u].pc = "done" /\ task[u].http = 200
        /\ task[u].update.kind = "message"
        /\ "error_handler" \in task[u].logged

AllSpaces(s) == \A i \in 1..Len(s) : s[i] = " "

\* C7: an inline query whose text is empty or only whitespace makes no
\* get_weather call, no provider request and no answer.
C7_EmptyInlineQuery ==
    \A t \in Tasks :
        (task[t].update.kind = "inline_query" /\ AllSpaces(task[t].update.text)) =>
            /\ task[t].calls = 0
            /\ task[t].requests = <<>>
            /\ task[t].sent = <<>>

C7_Witness ==
    \E t \in Tasks :
        /\ task[t].update = Update("inline_query", <<" ", " ">>)
        /\ task[t].pc = "done"
        /\ task[t].http = 200

TriggersLookup(u) ==
    \/ u.kind = "message"
    \/ u.kind = "inline_query" /\ ~AllSpaces(u.text)

\* C8: an update that triggers a lookup makes exactly one get_weather call
\* and then sends exactly one payload: a direct message one reply, the
\* detailed message on success and the error text on failure; an inline
\* query one answer with exactly one result (error or city) and
\* cache_time 300.
C8_OneCallOnePayload ==
    \A t \in Tasks :
        LET r == task[t] IN
        TriggersLookup(r.update) =>
            /\ InGetWeather(t) => r.calls = 1 /\ r.sent = <<>>
            /\ r.pc \in {"await_send", "handler_raised", "respond", "done"} =>
                 /\ r.calls = 1
                 /\ Len(r.sent) = 1
                 /\ r.update.kind = "message" =>
                      /\ r.sent[1].method = "reply_text"
                      /\ IF r.result.error # NoError
                         THEN r.sent[1].message = error_message(r.result.error)
                         ELSE /\ r.sent[1].message.kind = "detailed"
                              /\ r.sent[1].message.city = r.result.weather_info.city
                 /\ r.update.kind = "inline_query" =>
                      /\ r.sent[1].method = "answer"
                      /\ r.sent[1].cache_time = 300
                      /\ Len(r.sent[1].results) = 1
                      /\ IF r.result.error # NoError
                         THEN /\ r.sent[1].results[1].id = "error"
                              /\ r.sent[1].results[1].title = <<"error", r.result.error>>
                              /\ r.sent[1].results[1].message = error_message(r.result.error)
                         ELSE /\ r.sent[1].results[1].id = r.result.weather_info.city
                              /\ r.sent[1].results[1].message.kind = "compact"

C8_Witness ==
    \E t, u \in Tasks :
        /\ task[t].pc = "done" /\ task[t].update.kind = "message"
        /\ task[t].sent[1].message.kind = "detailed"
        /\ task[u].pc = "done" /\ task[u].update.kind = "inline_query"
        /\ task[u].sent # <<>>
        /\ task[u].sent[1].results[1].id = "error"

Count(seq, lines) == Cardinality({i \in 1..Len(seq) : seq[i] \in lines})

\* C9: the bolt message has one line of each of the four pairs, in the
\* order rain, clouds, visibility, wind; the snow line comes fifth and
\* last exactly when snow > 0; 4 lines without snow, 5 with; no other line.
C9_LinesAndOrder ==
    fmt_pc = "return" =>
        /\ Len(messages) = IF weather_data.snow > 0 THEN 5 ELSE 4
        /\ messages[1] \in {WET, DRY}
        /\ messages[1] = WET <=> weather_data.rain > 0
        /\ messages[2] \in {CLEAR, CLOUDY}
        /\ messages[3] \in {FOG, NOFOG}
        /\ messages[4] \in {WINDY, CALM}
        /\ Count(messages, {WET, DRY}) = 1
        /\ Count(messages, {CLEAR, CLOUDY}) = 1
        /\ Count(messages, {FOG, NOFOG}) = 1
        /\ Count(messages, {WINDY, CALM}) = 1
        /\ Count(messages, {SNOW}) = IF weather_data.snow > 0 THEN 1 ELSE 0
        /\ weather_data.snow > 0 => messages[5] = SNOW

C9_Witness ==
    /\ fmt_pc = "return"
    /\ weather_data.snow > 0
    /\ weather_data.rain > 0
    /\ messages = <<WET, CLOUDY, NOFOG, CALM, SNOW>>

\* C10: clouds < 30 is clear and clouds = 30 cloudy; visibility < 1000 is
\* fog and visibility = 1000 no fog; wind_speed > 5 is windy and
\* wind_speed = 5 calm; each line depends on its own field only.
C10_Boundaries ==
    fmt_pc = "return" =>
        /\ messages[2] = (IF weather_data.clouds < 30 THEN CLEAR ELSE CLOUDY)
        /\ messages[3] = (IF weather_data.visibility < 1000 THEN FOG ELSE NOFOG)
        /\ messages[4] = (IF weather_data.wind_speed > 5 THEN WINDY ELSE CALM)

C10_Witness ==
    /\ fmt_pc = "return"
    /\ weather_data.clouds = 30 /\ messages[2] = CLOUDY
    /\ weather_data.visibility = 1000 /\ messages[3] = NOFOG
    /\ weather_data.wind_speed = 5 /\ messages[4] = CALM
    /\ weather_data.rain > 0 /\ weather_data.snow > 0

====
